---- MODULE Spec2Model ----
(***************************************************************************)
(* geniusrise-prompt-actions: thin wrappers around the REST APIs of        *)
(* Confluence, Discord, GitHub, GitLab, Jira and Slack.                    *)
(*                                                                         *)
(* One wrapper invocation is one step of the model.  The step runs the     *)
(* wrapper's code against a reply of the HTTP layer (a response or a       *)
(* transport exception) and records the requests handed to the HTTP        *)
(* library, the outcome of the invocation (a returned Python value or a    *)
(* raised exception) and the local file system the wrappers read and write.*)
(***************************************************************************)
EXTENDS Naturals, Sequences, FiniteSets, TLC

VARIABLES
    build,   \* the installed `requests`: is its JSONDecodeError a RequestException
    fs,      \* local files: path -> content
    last,    \* the invocation that ran last: wrapper, arguments, reply of the HTTP layer
    sent,    \* the requests that invocation handed to the HTTP library, in order
    result,  \* how that invocation ended: a returned value or a raised exception
    pc,      \* "idle" between calls, "pending" while an invocation runs, "done" when it ended
    memo,    \* an earlier invocation kept for comparison with later ones
    threads  \* the invocations that run concurrently, one per thread

vars == <<build, fs, last, sent, result, pc, memo, threads>>

(***************************************************************************)
(* Bounds of the model.                                                    *)
(***************************************************************************)
MaxId == 2

Ids == 1..MaxId

(***************************************************************************)
(* Python values.  A value is a dict, a list, a str or None; the values    *)
(* held by a dict are flat (a list or a str).                              *)
(***************************************************************************)
Flat(tag, text) == [tag |-> tag, text |-> text]

PyStr(s) == [tag |-> "str", text |-> s, fields |-> {}]

PyNone == [tag |-> "none", text |-> "", fields |-> {}]

PyList(label) == [tag |-> "list", text |-> label, fields |-> {}]

PyDict(fields) == [tag |-> "dict", text |-> "", fields |-> fields]

Lift(flat) == [tag |-> flat.tag, text |-> flat.text, fields |-> {}]

IsStr(v) == v.tag = "str"

DictHas(d, k) == \E p \in d.fields : p[1] = k

DictItem(d, k) == Lift((CHOOSE p \in d.fields : p[1] = k)[2])

(***************************************************************************)
(* Exceptions and the outcome of evaluating Python code.                   *)
(***************************************************************************)
Exc(cls, msg) == [cls |-> cls, msg |-> msg]

NoExc == Exc("", "")

Return(v) == [kind |-> "return", value |-> v, exc |-> NoExc]

Raise(e) == [kind |-> "raise", value |-> PyNone, exc |-> e]

\* statement sequencing: the second part runs only if the first did not raise
Then(first, second) == IF first.kind = "raise" THEN first ELSE second

(***************************************************************************)
(* The HTTP layer: what one call of requests.get/post/put/patch/delete     *)
(* comes back with.                                                        *)
(***************************************************************************)
Response(status, hasJson, json, content) ==
    [kind |-> "response", status |-> status, hasJson |-> hasJson, json |-> json,
     content |-> content, exc |-> NoExc]

TransportError(cls, msg) ==
    [kind |-> "exc", status |-> 0, hasJson |-> FALSE, json |-> PyNone,
     content |-> "", exc |-> Exc(cls, msg)]

\* JSON bodies a server answers with
JObjAll ==
    PyDict({<<"values", Flat("list", "[v1,v2]")>>, <<"names", Flat("list", "[n1]")>>,
            <<"channels", Flat("list", "[c1]")>>, <<"id", Flat("str", "42")>>})

JObjId == PyDict({<<"id", Flat("str", "42")>>})

JObjError == PyDict({<<"message", Flat("str", "Not Found")>>})


\* Slack's answer to a call it rejects: HTTP 200 with "ok": false
JObjRejected ==
    PyDict({<<"ok", Flat("bool", "false")>>, <<"error", Flat("str", "invalid_auth")>>})

JList == PyList("[p1,p2]")

OkReplies ==
    {Response(200, TRUE, JObjAll, "{all}"), Response(200, TRUE, JObjId, "{id}"),
     Response(200, TRUE, JList, "[p1,p2]"), Response(204, FALSE, PyNone, ""),
     Response(200, TRUE, JObjRejected, "{ok:false}")}

StatusErrorReplies ==
    {Response(404, TRUE, JObjError, "{message}"), Response(404, FALSE, PyNone, ""),
     Response(500, FALSE, PyNone, "")}

TransportErrorReplies ==
    {TransportError("ConnectionError", "Connection refused"),
     TransportError("Timeout", "Read timed out"),
     TransportError("InvalidURL", "Invalid URL: No host supplied")}

Replies == OkReplies \cup StatusErrorReplies \cup TransportErrorReplies

Is2xx(reply) == reply.kind = "response" /\ reply.status >= 200 /\ reply.status < 300

IsHttpError(reply) == reply.kind = "response" /\ reply.status >= 400

IsTransportError(reply) == reply.kind = "exc"

\* a failed call: a 4xx/5xx answer or no answer at all
Failed(reply) == IsHttpError(reply) \/ IsTransportError(reply)

\* a request as handed to the HTTP library
NoBasic == [username |-> "", password |-> ""]

Request(method, url, authorization, basic, body, files) ==
    [method |-> method, url |-> url, authorization |-> authorization, basic |-> basic,
     body |-> body, files |-> files]

\* response = requests.<verb>(...): raises the transport exception, if any
Perform(reply) == IF reply.kind = "exc" THEN Raise(reply.exc) ELSE Return(PyNone)

HTTPErrorMsg(status, url) ==
    ToString(status) \o (IF status < 500 THEN " Client Error" ELSE " Server Error")
        \o " for url: " \o url

\* response.raise_for_status()
RaiseForStatus(reply, url) ==
    IF reply.status >= 400
    THEN Raise(Exc("HTTPError", HTTPErrorMsg(reply.status, url)))
    ELSE Return(PyNone)

\* response.json()
Json(reply) ==
    IF reply.hasJson THEN Return(reply.json)
    ELSE Raise(Exc("JSONDecodeError", "Expecting value: line 1 column 1 (char 0)"))

\* isinstance(e, requests.RequestException)
IsRequestException(cls) ==
    \/ cls \in {"HTTPError", "ConnectionError", "Timeout", "InvalidURL"}
    \/ cls = "JSONDecodeError" /\ build.jsonErrorIsRequestException

\* except requests.RequestException as e: return str(e)
Catch(outcome) ==
    IF outcome.kind = "raise" /\ IsRequestException(outcome.exc.cls)
    THEN Return(PyStr(outcome.exc.msg))
    ELSE outcome

\* <value>.get(key, [])
Get(outcome, key) ==
    IF outcome.kind = "raise" THEN outcome
    ELSE IF outcome.value.tag # "dict"
    THEN Raise(Exc("AttributeError", "object has no attribute 'get'"))
    ELSE IF DictHas(outcome.value, key) THEN Return(DictItem(outcome.value, key))
    ELSE Return(PyList("[]"))

\* <value>[key]
Index(outcome, key) ==
    IF outcome.kind = "raise" THEN outcome
    ELSE IF outcome.value.tag # "dict"
    THEN Raise(Exc("TypeError", "indices must be integers or slices, not str"))
    ELSE IF DictHas(outcome.value, key) THEN Return(DictItem(outcome.value, key))
    ELSE Raise(Exc("KeyError", key))

\* what an invocation leaves behind
Ran(requests, outcome, files) == [sent |-> requests, outcome |-> outcome, fs |-> files]

(***************************************************************************)
(* Arguments of a wrapper.  Fields a wrapper does not take stay "".         *)
(***************************************************************************)
NoArgs ==
    [token |-> "", auth |-> {}, server |-> "", id1 |-> "", id2 |-> "", id3 |-> "",
     action |-> "", path |-> "", name |-> "", description |-> "", private |-> "",
     text |-> "", title |-> "", state |-> "", labels |-> "", assignees |-> "",
     milestone |-> "", url |-> ""]

\* an optional argument left at None
NoneArg == "<None>"

Tokens == {"t0ken"}

Servers == {"https://host"}

FullAuth == {<<"username", "bob">>, <<"password", "pw">>}

Auths == {FullAuth, {<<"username", "bob">>}}

AuthHas(auth, k) == \E p \in auth : p[1] = k

AuthItem(auth, k) == (CHOOSE p \in auth : p[1] = k)[2]

\* auth[key] on the caller's dictionary
AuthLookup(auth, k) ==
    IF AuthHas(auth, k) THEN Return(PyStr(AuthItem(auth, k))) ELSE Raise(Exc("KeyError", k))

\* auth=(auth["username"], auth["password"])
BasicOf(auth) == [username |-> AuthItem(auth, "username"), password |-> AuthItem(auth, "password")]

AuthPair(auth) == Then(AuthLookup(auth, "username"), AuthLookup(auth, "password"))

\* f"token {auth_token}", f"Bearer {token}", f"Bot {token}"
TokenHeader(scheme, token) == scheme \o " " \o token

(***************************************************************************)
(* Local files.                                                            *)
(***************************************************************************)
Absent == "<absent>"

Paths == {"a.bin", "nodir/b.bin"}

\* the directory of the path exists, so the file can be created
DirExists(path) == path = "a.bin"

\* open(path, "rb")
OpenRead(files, path) ==
    IF files[path] = Absent
    THEN Raise(Exc("FileNotFoundError", "No such file or directory: " \o path))
    ELSE Return(PyStr(files[path]))

\* open(path, "wb")
OpenWrite(path) ==
    IF DirExists(path) THEN Return(PyNone)
    ELSE Raise(Exc("FileNotFoundError", "No such file or directory: " \o path))

\* the statements of a try block around one call: the call, raise_for_status, the return
TryBody(req, reply, value) ==
    Then(Perform(reply), Then(RaiseForStatus(reply, req.url), value))

(***************************************************************************)
(* github/repo.py                                                          *)
(***************************************************************************)
create_repository(a, reply) ==
    LET url == "https://api.github.com/"
                   \o (IF a.id1 # NoneArg /\ a.id1 # "" THEN "orgs/" \o a.id1 ELSE "user")
                   \o "/repos"
        payload == {<<"name", a.name>>, <<"description", a.description>>,
                    <<"private", a.private>>}
        req == Request("POST", url, TokenHeader("token", a.token), NoBasic, payload, "")
    IN  Ran(<<req>>, Then(Perform(reply), Json(reply)), fs)

delete_repository(a, reply) ==
    LET url == "https://api.github.com/repos/" \o a.id1 \o "/" \o a.id2
        req == Request("DELETE", url, TokenHeader("token", a.token), NoBasic, {}, "")
    IN  Ran(<<req>>, Then(Perform(reply), Json(reply)), fs)


\* update_repository dropping every falsy value (`if v`) instead of None only
update_repository_truthy(a, reply) ==
    LET url == "https://api.github.com/repos/" \o a.id1 \o "/" \o a.id2
        payload == {<<"name", a.name>>, <<"description", a.description>>,
                    <<"private", a.private>>}
        filtered == {p \in payload : p[2] \notin {NoneArg, "", "False"}}
        req == Request("PATCH", url, TokenHeader("token", a.token), NoBasic, filtered, "")
    IN  Ran(<<req>>, Then(Perform(reply), Json(reply)), fs)

update_repository(a, reply) ==
    LET url == "https://api.github.com/repos/" \o a.id1 \o "/" \o a.id2
        payload == {<<"name", a.name>>, <<"description", a.description>>,
                    <<"private", a.private>>}
        filtered == {p \in payload : p[2] # NoneArg}
        req == Request("PATCH", url, TokenHeader("token", a.token), NoBasic, filtered, "")
    IN  Ran(<<req>>, Then(Perform(reply), Json(reply)), fs)

star_repository(a, reply) ==
    LET url == "https://api.github.com/user/starred/" \o a.id1 \o "/" \o a.id2
        req == Request("PUT", url, TokenHeader("token", a.token), NoBasic, {}, "")
    IN  Ran(<<req>>,
            Catch(TryBody(req, reply, Return(PyStr("Successfully starred the repository.")))),
            fs)

get_repository_topics(a, reply) ==
    LET url == "https://api.github.com/repos/" \o a.id1 \o "/" \o a.id2 \o "/topics"
        req == Request("GET", url, TokenHeader("token", a.token), NoBasic, {}, "")
    IN  Ran(<<req>>, Catch(TryBody(req, reply, Get(Json(reply), "names"))), fs)



(***************************************************************************)
(* github/workflows.py                                                     *)
(***************************************************************************)
manage_workflow(a, reply) ==
    LET url == "https://api.github.com/repos/" \o a.id1 \o "/" \o a.id2
                   \o "/actions/workflows/" \o a.id3 \o "/enable"
        payload == {<<"state", a.state>>}
        req == Request("PUT", url, TokenHeader("token", a.token), NoBasic, payload, "")
    IN  Ran(<<req>>, Catch(TryBody(req, reply, Json(reply))), fs)

(***************************************************************************)
(* github/pr.py                                                            *)
(***************************************************************************)
\* update_issue of github/pr.py sending POST instead of PATCH

update_pull_request(a, reply) ==
    LET url == "https://api.github.com/repos/" \o a.id1 \o "/" \o a.id2 \o "/pulls/" \o a.id3
        payload == {<<"title", a.title>>, <<"body", a.text>>, <<"state", a.state>>,
                    <<"base", a.name>>}
        req == Request("PATCH", url, TokenHeader("token", a.token), NoBasic, payload, "")
    IN  Ran(<<req>>, Catch(TryBody(req, reply, Json(reply))), fs)

remove_milestone(a, reply) ==
    LET url == "https://api.github.com/repos/" \o a.id1 \o "/" \o a.id2 \o "/issues/" \o a.id3
        payload == {<<"milestone", NoneArg>>}
        req == Request("PATCH", url, TokenHeader("token", a.token), NoBasic, payload, "")
    IN  Ran(<<req>>,
            Catch(TryBody(req, reply, Return(PyStr("Milestone removed successfully.")))),
            fs)

github_update_issue_post(a, reply) ==
    LET url == "https://api.github.com/repos/" \o a.id1 \o "/" \o a.id2 \o "/issues/" \o a.id3
        payload == {<<"title", a.title>>, <<"body", a.text>>, <<"state", a.state>>,
                    <<"labels", a.labels>>, <<"assignees", a.assignees>>,
                    <<"milestone", a.milestone>>}
        req == Request("POST", url, TokenHeader("token", a.token), NoBasic, payload, "")
    IN  Ran(<<req>>, Catch(TryBody(req, reply, Json(reply))), fs)

\* update_issue of github/pr.py; json=payload carries a None argument as null
github_update_issue(a, reply) ==
    LET url == "https://api.github.com/repos/" \o a.id1 \o "/" \o a.id2 \o "/issues/" \o a.id3
        payload == {<<"title", a.title>>, <<"body", a.text>>, <<"state", a.state>>,
                    <<"labels", a.labels>>, <<"assignees", a.assignees>>,
                    <<"milestone", a.milestone>>}
        req == Request("PATCH", url, TokenHeader("token", a.token), NoBasic, payload, "")
    IN  Ran(<<req>>, Catch(TryBody(req, reply, Json(reply))), fs)


(***************************************************************************)
(* github/user.py                                                          *)
(***************************************************************************)
update_user_profile(a, reply) ==
    LET url == "https://api.github.com/user"
        payload == {<<"name", a.name>>, <<"email", a.id1>>, <<"bio", a.text>>,
                    <<"location", a.id2>>, <<"hireable", a.private>>}
        req == Request("PATCH", url, TokenHeader("token", a.token), NoBasic, payload, "")
    IN  Ran(<<req>>, Catch(TryBody(req, reply, Json(reply))), fs)

(***************************************************************************)
(* slack/messages.py, slack/channels.py, slack/conversations.py,           *)
(* slack/files.py                                                          *)
(***************************************************************************)
\* update_message without its raise_for_status() line
update_message_unchecked(a, reply) ==
    LET url == "https://slack.com/api/chat.update"
        payload == {<<"channel", a.id1>>, <<"ts", a.id2>>, <<"text", a.text>>}
        req == Request("POST", url, TokenHeader("Bearer", a.token), NoBasic, payload, "")
    IN  Ran(<<req>>, Catch(Then(Perform(reply), Json(reply))), fs)

update_message(a, reply) ==
    LET url == "https://slack.com/api/chat.update"
        payload == {<<"channel", a.id1>>, <<"ts", a.id2>>, <<"text", a.text>>}
        req == Request("POST", url, TokenHeader("Bearer", a.token), NoBasic, payload, "")
    IN  Ran(<<req>>, Catch(TryBody(req, reply, Json(reply))), fs)

react_to_message(a, reply) ==
    LET url == "https://slack.com/api/reactions.add"
        payload == {<<"channel", a.id1>>, <<"timestamp", a.id2>>, <<"name", a.name>>}
        req == Request("POST", url, TokenHeader("Bearer", a.token), NoBasic, payload, "")
    IN  Ran(<<req>>, Catch(TryBody(req, reply, Json(reply))), fs)

list_channels(a, reply) ==
    LET url == "https://slack.com/api/conversations.list"
        req == Request("GET", url, TokenHeader("Bearer", a.token), NoBasic, {}, "")
    IN  Ran(<<req>>, Catch(TryBody(req, reply, Get(Json(reply), "channels"))), fs)

\* list_conversations returning only the "channels" entry, as list_channels does
list_conversations_keyed(a, reply) ==
    LET url == "https://slack.com/api/conversations.list"
        req == Request("GET", url, TokenHeader("Bearer", a.token), NoBasic, {}, "")
    IN  Ran(<<req>>, Catch(TryBody(req, reply, Get(Json(reply), "channels"))), fs)

list_conversations(a, reply) ==
    LET url == "https://slack.com/api/conversations.list"
        req == Request("GET", url, TokenHeader("Bearer", a.token), NoBasic, {}, "")
    IN  Ran(<<req>>, Catch(TryBody(req, reply, Json(reply))), fs)


\* slack/users.py

\* list_users answering from a local file other invocations write, once it is there
list_users_shared(a, reply) ==
    LET url == "https://slack.com/api/users.list"
        req == Request("GET", url, TokenHeader("Bearer", a.token), NoBasic, {}, "")
    IN  IF fs["a.bin"] # Absent THEN Ran(<<>>, Return(PyStr(fs["a.bin"])), fs)
        ELSE Ran(<<req>>, Catch(TryBody(req, reply, Json(reply))), fs)

list_users(a, reply) ==
    LET url == "https://slack.com/api/users.list"
        req == Request("GET", url, TokenHeader("Bearer", a.token), NoBasic, {}, "")
    IN  Ran(<<req>>, Catch(TryBody(req, reply, Json(reply))), fs)

upload_file(a, reply) ==
    LET url == "https://slack.com/api/files.upload"
        payload == {<<"channels", a.id1>>}
        opened == OpenRead(fs, a.path)   \* before the try block
        req == Request("POST", url, TokenHeader("Bearer", a.token), NoBasic, payload,
                       opened.value.text)
    IN  IF opened.kind = "raise" THEN Ran(<<>>, opened, fs)
        ELSE Ran(<<req>>, Catch(TryBody(req, reply, Json(reply))), fs)

(***************************************************************************)
(* gitlab/group.py, gitlab/issues.py, gitlab/repo.py                       *)
(***************************************************************************)
\* response.raise_for_status() when no branch assigned `response`
Unbound ==
    Raise(Exc("UnboundLocalError",
              "local variable 'response' referenced before assignment"))

manage_group_members(a, reply) ==
    LET url == a.server \o "/api/v4/groups/" \o a.id1 \o "/members/" \o a.id2
        headers == TokenHeader("Bearer", a.token)
        payload == {<<"access_level", a.text>>}
        post == Request("POST", url, headers, NoBasic, payload, "")
        delete == Request("DELETE", url, headers, NoBasic, {}, "")
        done == Return(PyStr("Group member managed successfully."))
    IN  IF a.action = "add" THEN Ran(<<post>>, Catch(TryBody(post, reply, done)), fs)
        ELSE IF a.action = "remove"
        THEN Ran(<<delete>>, Catch(TryBody(delete, reply, done)), fs)
        ELSE Ran(<<>>, Catch(Unbound), fs)

manage_group_projects(a, reply) ==
    LET url == a.server \o "/api/v4/groups/" \o a.id1 \o "/projects/" \o a.id2
        headers == TokenHeader("Bearer", a.token)
        post == Request("POST", url, headers, NoBasic, {}, "")
        delete == Request("DELETE", url, headers, NoBasic, {}, "")
        done == Return(PyStr("Group project managed successfully."))
    IN  IF a.action = "add" THEN Ran(<<post>>, Catch(TryBody(post, reply, done)), fs)
        ELSE IF a.action = "remove"
        THEN Ran(<<delete>>, Catch(TryBody(delete, reply, done)), fs)
        ELSE Ran(<<>>, Catch(Unbound), fs)

\* manage_issue_notes answering an unknown action with a message instead of failing

\* create_issue of gitlab/issues.py
gitlab_create_issue(a, reply) ==
    LET url == a.server \o "/api/v4/projects/" \o a.id1 \o "/issues"
        payload == {<<"title", a.title>>, <<"description", a.description>>}
        req == Request("POST", url, TokenHeader("Bearer", a.token), NoBasic, payload, "")
    IN  Ran(<<req>>, Catch(TryBody(req, reply, Json(reply))), fs)


\* gitlab/hooks.py
create_system_hook(a, reply) ==
    LET api_url == a.server \o "/api/v4/hooks"
        payload == {<<"url", a.url>>, <<"push_events", a.text>>,
                    <<"tag_push_events", a.private>>}
        req == Request("POST", api_url, TokenHeader("Bearer", a.token), NoBasic, payload, "")
    IN  Ran(<<req>>, Catch(TryBody(req, reply, Json(reply))), fs)

\* gitlab/hooks.py; the parameter `url` is reassigned before the payload is built
update_system_hook(a, reply) ==
    LET url == a.server \o "/api/v4/hooks/" \o a.id1
        payload == {<<"url", url>>, <<"push_events", a.text>>,
                    <<"tag_push_events", a.private>>}
        req == Request("PUT", url, TokenHeader("Bearer", a.token), NoBasic, payload, "")
    IN  Ran(<<req>>, Catch(TryBody(req, reply, Json(reply))), fs)

manage_issue_notes_lenient(a, reply) ==
    LET url == a.server \o "/api/v4/projects/" \o a.id1 \o "/issues/" \o a.id2
                   \o "/notes/" \o a.id3
        headers == TokenHeader("Bearer", a.token)
        payload == {<<"body", a.text>>}
        post == Request("POST", url, headers, NoBasic, payload, "")
        put == Request("PUT", url, headers, NoBasic, payload, "")
        delete == Request("DELETE", url, headers, NoBasic, {}, "")
        done == Return(PyStr("Issue note managed successfully."))
    IN  IF a.action = "add" THEN Ran(<<post>>, Catch(TryBody(post, reply, done)), fs)
        ELSE IF a.action = "update" THEN Ran(<<put>>, Catch(TryBody(put, reply, done)), fs)
        ELSE IF a.action = "delete"
        THEN Ran(<<delete>>, Catch(TryBody(delete, reply, done)), fs)
        ELSE Ran(<<>>, Return(PyStr("Invalid action.")), fs)

manage_issue_notes(a, reply) ==
    LET url == a.server \o "/api/v4/projects/" \o a.id1 \o "/issues/" \o a.id2
                   \o "/notes/" \o a.id3
        headers == TokenHeader("Bearer", a.token)
        payload == {<<"body", a.text>>}
        post == Request("POST", url, headers, NoBasic, payload, "")
        put == Request("PUT", url, headers, NoBasic, payload, "")
        delete == Request("DELETE", url, headers, NoBasic, {}, "")
        done == Return(PyStr("Issue note managed successfully."))
    IN  IF a.action = "add" THEN Ran(<<post>>, Catch(TryBody(post, reply, done)), fs)
        ELSE IF a.action = "update" THEN Ran(<<put>>, Catch(TryBody(put, reply, done)), fs)
        ELSE IF a.action = "delete"
        THEN Ran(<<delete>>, Catch(TryBody(delete, reply, done)), fs)
        ELSE Ran(<<>>, Catch(Unbound), fs)

\* manage_repository_files trying once more after a failed request

\* gitlab/mr.py
manage_merge_request_notes(a, reply) ==
    LET url == a.server \o "/api/v4/projects/" \o a.id1 \o "/merge_requests/" \o a.id2
                   \o "/notes/" \o a.id3
        headers == TokenHeader("Bearer", a.token)
        payload == {<<"body", a.text>>}
        post == Request("POST", url, headers, NoBasic, payload, "")
        put == Request("PUT", url, headers, NoBasic, payload, "")
        delete == Request("DELETE", url, headers, NoBasic, {}, "")
        done == Return(PyStr("Merge request note managed successfully."))
    IN  IF a.action = "add" THEN Ran(<<post>>, Catch(TryBody(post, reply, done)), fs)
        ELSE IF a.action = "update" THEN Ran(<<put>>, Catch(TryBody(put, reply, done)), fs)
        ELSE IF a.action = "delete"
        THEN Ran(<<delete>>, Catch(TryBody(delete, reply, done)), fs)
        ELSE Ran(<<>>, Catch(Unbound), fs)

\* gitlab/user.py
manage_user_projects(a, reply) ==
    LET url == a.server \o "/api/v4/users/" \o a.id1 \o "/projects/" \o a.id2
        headers == TokenHeader("Bearer", a.token)
        post == Request("POST", url, headers, NoBasic, {}, "")
        delete == Request("DELETE", url, headers, NoBasic, {}, "")
    IN  IF a.action = "add" THEN Ran(<<post>>, Catch(TryBody(post, reply, Json(reply))), fs)
        ELSE IF a.action = "remove"
        THEN Ran(<<delete>>, Catch(TryBody(delete, reply, Json(reply))), fs)
        ELSE Ran(<<>>, Catch(Unbound), fs)

manage_user_ssh_keys(a, reply) ==
    LET url == a.server \o "/api/v4/users/" \o a.id1 \o "/keys/" \o a.id2
        headers == TokenHeader("Bearer", a.token)
        post == Request("POST", url, headers, NoBasic, {}, "")
        delete == Request("DELETE", url, headers, NoBasic, {}, "")
        done == Return(PyStr("SSH key managed successfully."))
    IN  IF a.action = "add" THEN Ran(<<post>>, Catch(TryBody(post, reply, done)), fs)
        ELSE IF a.action = "remove"
        THEN Ran(<<delete>>, Catch(TryBody(delete, reply, done)), fs)
        ELSE Ran(<<>>, Catch(Unbound), fs)

manage_user_emails(a, reply) ==
    LET url == a.server \o "/api/v4/users/" \o a.id1 \o "/emails/" \o a.id2
        headers == TokenHeader("Bearer", a.token)
        post == Request("POST", url, headers, NoBasic, {}, "")
        delete == Request("DELETE", url, headers, NoBasic, {}, "")
        done == Return(PyStr("Email address managed successfully."))
    IN  IF a.action = "add" THEN Ran(<<post>>, Catch(TryBody(post, reply, done)), fs)
        ELSE IF a.action = "remove"
        THEN Ran(<<delete>>, Catch(TryBody(delete, reply, done)), fs)
        ELSE Ran(<<>>, Catch(Unbound), fs)


\* gitlab/jobs.py
manage_pipeline_jobs(a, reply) ==
    LET url == a.server \o "/api/v4/projects/" \o a.id1 \o "/jobs/" \o a.id2 \o "/" \o a.action
        req == Request("POST", url, TokenHeader("Bearer", a.token), NoBasic, {}, "")
        done == Return(PyStr("Job " \o a.action \o "ed successfully."))
    IN  Ran(<<req>>, Catch(TryBody(req, reply, done)), fs)

manage_repository_files_retry(a, reply) ==
    LET url == a.server \o "/api/v4/projects/" \o a.id1 \o "/repository/files/" \o a.path
        headers == TokenHeader("Bearer", a.token)
        payload == {<<"action", a.action>>, <<"content", a.text>>,
                    <<"commit_message", a.description>>}
        delete == Request("DELETE", url, headers, NoBasic, payload, "")
        post == Request("POST", url, headers, NoBasic, payload, "")
        req == IF a.action = "delete" THEN delete ELSE post
    IN  Ran(IF Failed(reply) THEN <<req, req>> ELSE <<req>>,
            Catch(TryBody(req, reply, Json(reply))), fs)

manage_repository_files(a, reply) ==
    LET url == a.server \o "/api/v4/projects/" \o a.id1 \o "/repository/files/" \o a.path
        headers == TokenHeader("Bearer", a.token)
        payload == {<<"action", a.action>>, <<"content", a.text>>,
                    <<"commit_message", a.description>>}
        delete == Request("DELETE", url, headers, NoBasic, payload, "")
        post == Request("POST", url, headers, NoBasic, payload, "")
    IN  IF a.action = "delete"
        THEN Ran(<<delete>>, Catch(TryBody(delete, reply, Json(reply))), fs)
        ELSE Ran(<<post>>, Catch(TryBody(post, reply, Json(reply))), fs)

(***************************************************************************)
(* jira/boards.py, jira/group.py, jira/users.py, jira/worklog.py,          *)
(* jira/issues.py                                                          *)
(***************************************************************************)

\* create_webhook of jira/webhooks.py; the parameter `url` is reassigned before the
\* payload is built
jira_create_webhook(a, reply) ==
    LET url == a.server \o "/rest/webhooks/1.0/webhook"
        payload == {<<"name", a.name>>, <<"url", url>>, <<"events", a.labels>>}
        pair == AuthPair(a.auth)
        req == Request("POST", url, "", BasicOf(a.auth), payload, "")
    IN  IF pair.kind = "raise" THEN Ran(<<>>, Catch(pair), fs)
        ELSE Ran(<<req>>, Catch(TryBody(req, reply, Json(reply))), fs)

\* update_webhook of jira/webhooks.py
jira_update_webhook(a, reply) ==
    LET url == a.server \o "/rest/webhooks/1.0/webhook/" \o a.id1
        payload == {<<"name", a.name>>, <<"url", a.url>>, <<"events", a.labels>>}
        pair == AuthPair(a.auth)
        req == Request("PUT", url, "", BasicOf(a.auth), payload, "")
    IN  IF pair.kind = "raise" THEN Ran(<<>>, Catch(pair), fs)
        ELSE Ran(<<req>>, Catch(TryBody(req, reply, Json(reply))), fs)


\* create_project of jira/users.py with the text of its log line as the returned string
jira_create_project_prefixed(a, reply) ==
    LET url == a.server \o "/rest/api/2/project"
        payload == {<<"name", a.name>>, <<"projectType.id", a.text>>,
                    <<"description", a.description>>}
        pair == AuthPair(a.auth)
        req == Request("POST", url, "", BasicOf(a.auth), payload, "")
        tried == TryBody(req, reply, Json(reply))
    IN  IF pair.kind = "raise" THEN Ran(<<>>, Catch(pair), fs)
        ELSE IF tried.kind = "raise" /\ IsRequestException(tried.exc.cls)
        THEN Ran(<<req>>, Return(PyStr("An error occurred: " \o tried.exc.msg)), fs)
        ELSE Ran(<<req>>, tried, fs)

\* create_project of jira/users.py
jira_create_project(a, reply) ==
    LET url == a.server \o "/rest/api/2/project"
        payload == {<<"name", a.name>>, <<"projectType.id", a.text>>,
                    <<"description", a.description>>}
        pair == AuthPair(a.auth)
        req == Request("POST", url, "", BasicOf(a.auth), payload, "")
    IN  IF pair.kind = "raise" THEN Ran(<<>>, Catch(pair), fs)
        ELSE Ran(<<req>>, Catch(TryBody(req, reply, Json(reply))), fs)

update_board(a, reply) ==
    Ran(<<>>, Return(PyStr("Board update feature may not be supported by Jira API.")), fs)

update_group(a, reply) ==
    Ran(<<>>, Return(PyStr("Group update feature may not be supported by Jira API.")), fs)

list_all_boards(a, reply) ==
    LET url == a.server \o "/rest/agile/1.0/board"
        pair == AuthPair(a.auth)   \* evaluated before the call is made
        req == Request("GET", url, "", BasicOf(a.auth), {}, "")
    IN  IF pair.kind = "raise" THEN Ran(<<>>, Catch(pair), fs)
        ELSE Ran(<<req>>, Catch(TryBody(req, reply, Get(Json(reply), "values"))), fs)

list_projects(a, reply) ==
    LET url == "{server_url}/rest/api/2/project"   \* no f prefix: the braces stay
        pair == AuthPair(a.auth)
        req == Request("GET", url, "", BasicOf(a.auth), {}, "")
    IN  IF pair.kind = "raise" THEN Ran(<<>>, Catch(pair), fs)
        ELSE Ran(<<req>>, Catch(TryBody(req, reply, Index(Json(reply), "values"))), fs)

create_worklog(a, reply) ==
    LET url == a.server \o "/rest/api/2/issue/" \o a.id1 \o "/worklog"
        payload == {<<"timeSpent", a.text>>, <<"started", a.id2>>,
                    <<"adjustForDST", a.private>>}
        req == Request("POST", url, "", NoBasic, payload, "")
    IN  Ran(<<req>>, Catch(TryBody(req, reply, Json(reply))), fs)

delete_worklog(a, reply) ==
    LET url == a.server \o "/rest/api/2/worklog/" \o a.id1
        req == Request("DELETE", url, "", NoBasic, {}, "")
    IN  Ran(<<req>>,
            Catch(TryBody(req, reply, Return(PyStr("Worklog deleted successfully.")))), fs)

read_issue(a, reply) ==
    LET url == a.server \o "/rest/api/2/issue/" \o a.id1
        pair == AuthPair(a.auth)
        req == Request("GET", url, "", BasicOf(a.auth), {}, "")
    IN  IF pair.kind = "raise" THEN Ran(<<>>, Catch(pair), fs)
        ELSE Ran(<<req>>, Catch(TryBody(req, reply, Json(reply))), fs)

(***************************************************************************)
(* discord/bans.py                                                         *)
(***************************************************************************)

ban_user(a, reply) ==
    LET url == "https://discord.com/api/v9/guilds/" \o a.id1 \o "/bans/" \o a.id2
        params == {<<"delete_message_days", a.id3>>, <<"reason", a.text>>}
        req == Request("PUT", url, TokenHeader("Bot", a.token), NoBasic, params, "")
    IN  Ran(<<req>>, Catch(TryBody(req, reply, Json(reply))), fs)

unban_user(a, reply) ==
    LET url == "https://discord.com/api/v9/guilds/" \o a.id1 \o "/bans/" \o a.id2
        req == Request("DELETE", url, TokenHeader("Bot", a.token), NoBasic, {}, "")
    IN  Ran(<<req>>, Catch(TryBody(req, reply, Json(reply))), fs)


(***************************************************************************)
(* discord/messages.py                                                     *)
(***************************************************************************)
\* delete_message of discord/messages.py without its raise_for_status() line
discord_delete_message_unchecked(a, reply) ==
    LET url == "https://discord.com/api/v9/channels/" \o a.id1 \o "/messages/" \o a.id2
        req == Request("DELETE", url, TokenHeader("Bot", a.token), NoBasic, {}, "")
        done == Return(PyDict({<<"status", Flat("str", "Message deleted successfully")>>}))
    IN  Ran(<<req>>, Catch(Then(Perform(reply), done)), fs)

\* delete_message of discord/messages.py
discord_delete_message(a, reply) ==
    LET url == "https://discord.com/api/v9/channels/" \o a.id1 \o "/messages/" \o a.id2
        req == Request("DELETE", url, TokenHeader("Bot", a.token), NoBasic, {}, "")
        done == Return(PyDict({<<"status", Flat("str", "Message deleted successfully")>>}))
    IN  Ran(<<req>>, Catch(TryBody(req, reply, done)), fs)

(***************************************************************************)
(* confluence/pages.py, confluence/attachments.py                          *)
(***************************************************************************)

create_page(a, reply) ==
    LET url == a.server \o "/rest/api/content"
        payload == {<<"type", "page">>, <<"title", a.title>>, <<"space.key", a.id1>>,
                    <<"body.storage.value", a.text>>,
                    <<"body.storage.representation", "storage">>}
        req == Request("POST", url, "", BasicOf(a.auth), payload, "")
    IN  Ran(<<req>>, Catch(TryBody(req, reply, Json(reply))), fs)

delete_page(a, reply) ==
    LET url == a.server \o "/rest/api/content/" \o a.id1
        req == Request("DELETE", url, "", BasicOf(a.auth), {}, "")
        done == Return(PyDict({<<"status", Flat("str", "Page deleted successfully")>>}))
    IN  Ran(<<req>>, Catch(TryBody(req, reply, done)), fs)

\* list_pages_by_space answering from a local cache file once one is there
list_pages_by_space_cached(a, reply) ==
    LET url == a.server \o "/rest/api/content"
        params == {<<"spaceKey", a.id1>>, <<"limit", a.id2>>, <<"type", "page">>}
        req == Request("GET", url, "", BasicOf(a.auth), params, "")
    IN  IF fs["a.bin"] # Absent THEN Ran(<<>>, Return(JObjId), fs)
        ELSE Ran(<<req>>, Catch(TryBody(req, reply, Json(reply))), fs)

list_pages_by_space(a, reply) ==
    LET url == a.server \o "/rest/api/content"
        params == {<<"spaceKey", a.id1>>, <<"limit", a.id2>>, <<"type", "page">>}
        req == Request("GET", url, "", BasicOf(a.auth), params, "")
    IN  Ran(<<req>>, Catch(TryBody(req, reply, Json(reply))), fs)

upload_attachment(a, reply) ==
    LET url == a.server \o "/rest/api/content/" \o a.id1 \o "/child/attachment"
        opened == OpenRead(fs, a.path)   \* inside the try block
        req == Request("POST", url, "", BasicOf(a.auth), {}, opened.value.text)
    IN  IF opened.kind = "raise" THEN Ran(<<>>, Catch(opened), fs)
        ELSE Ran(<<req>>, Catch(TryBody(req, reply, Json(reply))), fs)

download_attachment(a, reply) ==
    LET url == a.server \o "/rest/api/content/" \o a.id1 \o "/download"
        req == Request("GET", url, "", BasicOf(a.auth), {}, "")
        called == TryBody(req, reply, Return(PyNone))
        opened == OpenWrite(a.path)
    IN  IF called.kind = "raise" THEN Ran(<<req>>, Catch(called), fs)
        ELSE IF opened.kind = "raise" THEN Ran(<<req>>, Catch(opened), fs)
        ELSE Ran(<<req>>, Return(PyNone), [fs EXCEPT ![a.path] = reply.content])

(***************************************************************************)
(* One invocation.                                                         *)
(***************************************************************************)
Run(fn, a, reply) ==
    CASE fn = "create_repository" -> create_repository(a, reply)
      [] fn = "delete_repository" -> delete_repository(a, reply)
      [] fn = "update_repository" -> update_repository(a, reply)
      [] fn = "star_repository" -> star_repository(a, reply)
      [] fn = "get_repository_topics" -> get_repository_topics(a, reply)
      [] fn = "update_message" -> update_message(a, reply)
      [] fn = "react_to_message" -> react_to_message(a, reply)
      [] fn = "list_channels" -> list_channels(a, reply)
      [] fn = "list_conversations" -> list_conversations(a, reply)
      [] fn = "upload_file" -> upload_file(a, reply)
      [] fn = "manage_group_members" -> manage_group_members(a, reply)
      [] fn = "manage_group_projects" -> manage_group_projects(a, reply)
      [] fn = "manage_issue_notes" -> manage_issue_notes(a, reply)
      [] fn = "manage_repository_files" -> manage_repository_files(a, reply)
      [] fn = "update_board" -> update_board(a, reply)
      [] fn = "update_group" -> update_group(a, reply)
      [] fn = "list_all_boards" -> list_all_boards(a, reply)
      [] fn = "list_projects" -> list_projects(a, reply)
      [] fn = "create_worklog" -> create_worklog(a, reply)
      [] fn = "delete_worklog" -> delete_worklog(a, reply)
      [] fn = "read_issue" -> read_issue(a, reply)
      [] fn = "unban_user" -> unban_user(a, reply)
      [] fn = "delete_page" -> delete_page(a, reply)
      [] fn = "list_pages_by_space" -> list_pages_by_space(a, reply)
      [] fn = "upload_attachment" -> upload_attachment(a, reply)
      [] fn = "download_attachment" -> download_attachment(a, reply)
      [] fn = "github_update_issue" -> github_update_issue(a, reply)
      [] fn = "gitlab_create_issue" -> gitlab_create_issue(a, reply)
      [] fn = "ban_user" -> ban_user(a, reply)
      [] fn = "create_page" -> create_page(a, reply)
      [] fn = "create_system_hook" -> create_system_hook(a, reply)
      [] fn = "update_system_hook" -> update_system_hook(a, reply)
      [] fn = "jira_create_webhook" -> jira_create_webhook(a, reply)
      [] fn = "jira_update_webhook" -> jira_update_webhook(a, reply)
      [] fn = "manage_workflow" -> manage_workflow(a, reply)
      [] fn = "update_pull_request" -> update_pull_request(a, reply)
      [] fn = "remove_milestone" -> remove_milestone(a, reply)
      [] fn = "update_user_profile" -> update_user_profile(a, reply)
      [] fn = "manage_merge_request_notes" -> manage_merge_request_notes(a, reply)
      [] fn = "manage_user_projects" -> manage_user_projects(a, reply)
      [] fn = "manage_user_ssh_keys" -> manage_user_ssh_keys(a, reply)
      [] fn = "manage_user_emails" -> manage_user_emails(a, reply)
      [] fn = "manage_pipeline_jobs" -> manage_pipeline_jobs(a, reply)
      [] fn = "discord_delete_message" -> discord_delete_message(a, reply)
      [] fn = "list_users" -> list_users(a, reply)
      [] fn = "jira_create_project" -> jira_create_project(a, reply)

(***************************************************************************)
(* slack/*.py: the HTTP method and the URL of every Slack wrapper.         *)
(***************************************************************************)
Endpoint(fn, method, url) == [fn |-> fn, method |-> method, url |-> url]

slack_reactions ==
    {Endpoint("add_reaction", "POST", "https://slack.com/api/reactions.add"),
     Endpoint("remove_reaction", "POST", "https://slack.com/api/reactions.remove"),
     Endpoint("list_reactions", "GET", "https://slack.com/api/reactions.list")}

slack_channels ==
    {Endpoint("list_channels", "GET", "https://slack.com/api/conversations.list"),
     Endpoint("create_channel", "POST", "https://slack.com/api/conversations.create"),
     Endpoint("join_channel", "POST", "https://slack.com/api/conversations.join"),
     Endpoint("leave_channel", "POST", "https://slack.com/api/conversations.leave"),
     Endpoint("archive_channel", "POST", "https://slack.com/api/conversations.archive"),
     Endpoint("unarchive_channel", "POST", "https://slack.com/api/conversations.unarchive"),
     Endpoint("rename_channel", "POST", "https://slack.com/api/conversations.rename"),
     Endpoint("get_channel_info", "GET", "https://slack.com/api/conversations.info"),
     Endpoint("set_channel_topic", "POST", "https://slack.com/api/conversations.setTopic"),
     Endpoint("set_channel_purpose", "POST", "https://slack.com/api/conversations.setPurpose")}

slack_conversations ==
    {Endpoint("list_conversations", "GET", "https://slack.com/api/conversations.list"),
     Endpoint("open_conversation", "POST", "https://slack.com/api/conversations.open"),
     Endpoint("close_conversation", "POST", "https://slack.com/api/conversations.close"),
     Endpoint("invite_users_to_conversation", "POST", "https://slack.com/api/conversations.invite"),
     Endpoint("kick_user_from_conversation", "POST", "https://slack.com/api/conversations.kick")}

slack_files ==
    {Endpoint("upload_file", "POST", "https://slack.com/api/files.upload"),
     Endpoint("share_file", "POST", "https://slack.com/api/files.sharedPublicURL"),
     Endpoint("delete_file", "POST", "https://slack.com/api/files.delete"),
     Endpoint("list_files", "GET", "https://slack.com/api/files.list")}

slack_groups ==
    {Endpoint("create_user_group", "POST", "https://slack.com/api/usergroups.create"),
     Endpoint("update_user_group", "POST", "https://slack.com/api/usergroups.update"),
     Endpoint("disable_user_group", "POST", "https://slack.com/api/usergroups.disable"),
     Endpoint("enable_user_group", "POST", "https://slack.com/api/usergroups.enable"),
     Endpoint("list_user_groups", "GET", "https://slack.com/api/usergroups.list")}

slack_messages ==
    {Endpoint("update_message", "POST", "https://slack.com/api/chat.update"),
     Endpoint("delete_message", "POST", "https://slack.com/api/chat.delete"),
     Endpoint("list_messages_in_channel", "GET", "https://slack.com/api/conversations.history"),
     Endpoint("react_to_message", "POST", "https://slack.com/api/reactions.add"),
     Endpoint("unreact_to_message", "POST", "https://slack.com/api/reactions.remove")}

\* unpin_item left with the URL of pin_item it was copied from
slack_pins_copied ==
    {Endpoint("pin_item", "POST", "https://slack.com/api/pins.add"),
     Endpoint("unpin_item", "POST", "https://slack.com/api/pins.add"),
     Endpoint("list_pinned_items", "GET", "https://slack.com/api/pins.list")}

slack_pins ==
    {Endpoint("pin_item", "POST", "https://slack.com/api/pins.add"),
     Endpoint("unpin_item", "POST", "https://slack.com/api/pins.remove"),
     Endpoint("list_pinned_items", "GET", "https://slack.com/api/pins.list")}

slack_reminders ==
    {Endpoint("create_reminder", "POST", "https://slack.com/api/reminders.add"),
     Endpoint("delete_reminder", "POST", "https://slack.com/api/reminders.delete"),
     Endpoint("list_reminders", "GET", "https://slack.com/api/reminders.list")}

slack_search ==
    {Endpoint("search_messages", "GET", "https://slack.com/api/search.messages"),
     Endpoint("search_files", "GET", "https://slack.com/api/search.files")}

slack_users ==
    {Endpoint("list_users", "GET", "https://slack.com/api/users.list"),
     Endpoint("get_user_info", "GET", "https://slack.com/api/users.info"),
     Endpoint("set_user_status", "POST", "https://slack.com/api/users.profile.set"),
     Endpoint("set_user_presence", "POST", "https://slack.com/api/users.setPresence")}

SlackEndpoints ==
    slack_reactions
        \cup slack_channels
        \cup slack_conversations
        \cup slack_files
        \cup slack_groups
        \cup slack_messages
        \cup slack_pins
        \cup slack_reminders
        \cup slack_search
        \cup slack_users

(***************************************************************************)
(* The state machine.  An invocation is two steps: Call_<wrapper> binds    *)
(* the arguments, and the HTTP layer's reply lets the wrapper's body run    *)
(* to its end; then the caller goes on to its next call.  Invocations do   *)
(* not overlap: every call is synchronous.                                 *)
(***************************************************************************)
IdStrings == {ToString(i) : i \in Ids}

Builds == [jsonErrorIsRequestException : BOOLEAN]

NoReply == Response(200, FALSE, PyNone, "")

NoCall == [fn |-> "", args |-> NoArgs, reply |-> NoReply, view |-> ""]

NoMemo ==
    [state |-> "off", fn |-> "", args |-> NoArgs, reply |-> NoReply,
     view |-> "", sent |-> <<>>, outcome |-> Return(PyNone)]


\* the threads of the caller
Threads == {"A", "B"}

NoThread ==
    [pc |-> "idle", fn |-> "", args |-> NoArgs, reply |-> NoReply,
     outcome |-> Return(PyNone), alone |-> Return(PyNone)]

NoThreads == [t \in Threads |-> NoThread]

InitFiles ==
    {f \in [Paths -> {Absent, "old"}] : \A p \in Paths : ~DirExists(p) => f[p] = Absent}

Init ==
    /\ build \in Builds
    /\ fs \in InitFiles
    /\ last = NoCall
    /\ sent = <<>>
    /\ result = Return(PyNone)
    /\ pc = "idle"
    /\ memo = NoMemo
    /\ threads = NoThreads

\* the local file the invocation names, as it is when the invocation runs
View(a) == IF a.path \in Paths THEN fs[a.path] ELSE ""

\* the first invocation that matches the watched call is kept; a later one that
\* matches it is marked as a repetition
Observe(fn, a, reply, r) ==
    IF memo.state = "off" \/ memo.fn # fn \/ memo.args # a \/ memo.reply # reply
    THEN memo
    ELSE IF memo.state = "waiting"
    THEN [memo EXCEPT !.state = "seen", !.view = View(a), !.sent = r.sent,
                      !.outcome = r.outcome]
    ELSE [memo EXCEPT !.state = "again"]

\* a wrapper is called with arguments a
Start(fn, a) ==
    /\ pc = "idle"
    /\ pc' = "pending"
    /\ last' = [fn |-> fn, args |-> a, reply |-> NoReply, view |-> ""]
    /\ sent' = <<>>
    /\ result' = Return(PyNone)
    /\ UNCHANGED <<build, fs, memo, threads>>

\* the wrapper's body runs against the reply of the HTTP layer
Finish(reply) ==
    /\ pc = "pending"
    /\ \E r \in {Run(last.fn, last.args, reply)} :
        /\ last' = [last EXCEPT !.reply = reply, !.view = View(last.args)]
        /\ sent' = r.sent
        /\ result' = r.outcome
        /\ fs' = r.fs
        /\ memo' = Observe(last.fn, last.args, reply, r)
    /\ pc' = "done"
    /\ UNCHANGED <<build, threads>>

\* the arguments each wrapper is called with
Args_create_repository ==
    {[NoArgs EXCEPT !.token = tok, !.name = "repo", !.description = "",
                    !.private = "False", !.id1 = org] :
        tok \in Tokens, org \in {NoneArg, "acme"}}

Args_delete_repository ==
    {[NoArgs EXCEPT !.token = tok, !.id1 = "octo", !.id2 = "repo"] :
        tok \in Tokens}

Args_update_repository ==
    {[NoArgs EXCEPT !.token = tok, !.id1 = "octo", !.id2 = "repo",
                    !.description = description, !.name = name, !.private = private] :
        tok \in Tokens, name \in {NoneArg, "renamed"}, description \in {NoneArg, ""},
        private \in {NoneArg, "False"}}

Args_star_repository ==
    {[NoArgs EXCEPT !.token = tok, !.id1 = "octo", !.id2 = "repo"] :
        tok \in Tokens}

Args_get_repository_topics ==
    {[NoArgs EXCEPT !.token = tok, !.id1 = "octo", !.id2 = "repo"] :
        tok \in Tokens}

Args_update_message ==
    {[NoArgs EXCEPT !.token = tok, !.id1 = "C01", !.id2 = "1700.01",
                    !.text = "hello"] :
        tok \in Tokens}

Args_react_to_message ==
    {[NoArgs EXCEPT !.token = tok, !.id1 = "C01", !.id2 = "1700.01",
                    !.name = "thumbsup"] :
        tok \in Tokens}

Args_list_channels ==
    {[NoArgs EXCEPT !.token = tok] :
        tok \in Tokens}

Args_list_conversations ==
    {[NoArgs EXCEPT !.token = tok] :
        tok \in Tokens}

Args_upload_file ==
    {[NoArgs EXCEPT !.token = tok, !.id1 = "C01", !.path = path] :
        tok \in Tokens, path \in Paths}

Args_manage_group_members ==
    {[NoArgs EXCEPT !.token = tok, !.server = srv, !.id2 = "7", !.text = "30",
                    !.id1 = id, !.action = action] :
        tok \in Tokens, srv \in Servers, id \in IdStrings, action \in {"add", "remove", "update"}}

Args_manage_group_projects ==
    {[NoArgs EXCEPT !.token = tok, !.server = srv, !.id1 = "1", !.id2 = "7",
                    !.action = action] :
        tok \in Tokens, srv \in Servers, action \in {"add", "remove", "purge"}}

Args_manage_issue_notes ==
    {[NoArgs EXCEPT !.token = tok, !.server = srv, !.id1 = "1", !.id2 = "3",
                    !.id3 = "9", !.text = "note", !.action = action] :
        tok \in Tokens, srv \in Servers, action \in {"add", "update", "delete", "remove"}}

Args_manage_repository_files ==
    {[NoArgs EXCEPT !.token = tok, !.server = srv, !.id1 = "1",
                    !.path = "README.md", !.text = "content",
                    !.description = "commit", !.action = action] :
        tok \in Tokens, srv \in Servers, action \in {"create", "update", "delete"}}

Args_update_board ==
    {[NoArgs EXCEPT !.server = srv, !.auth = FullAuth, !.id1 = "1",
                    !.name = "Board", !.text = "scrum"] :
        srv \in Servers}

Args_update_group ==
    {[NoArgs EXCEPT !.server = srv, !.auth = FullAuth, !.id1 = "devs",
                    !.name = "developers"] :
        srv \in Servers}

Args_list_all_boards ==
    {[NoArgs EXCEPT !.server = srv, !.auth = auth] :
        srv \in Servers, auth \in Auths}

Args_list_projects ==
    {[NoArgs EXCEPT !.server = srv, !.auth = auth] :
        srv \in Servers, auth \in Auths}

Args_create_worklog ==
    {[NoArgs EXCEPT !.server = srv, !.auth = FullAuth, !.id1 = "PRJ-1",
                    !.text = "3h", !.id2 = "2023-01-01", !.private = "True"] :
        srv \in Servers}

Args_delete_worklog ==
    {[NoArgs EXCEPT !.server = srv, !.auth = FullAuth, !.id1 = "10001"] :
        srv \in Servers}

Args_read_issue ==
    {[NoArgs EXCEPT !.server = srv, !.id1 = "PRJ-1", !.auth = auth] :
        srv \in Servers, auth \in Auths}

Args_unban_user ==
    {[NoArgs EXCEPT !.token = tok, !.id2 = "77", !.id1 = id] :
        tok \in Tokens, id \in IdStrings}

Args_delete_page ==
    {[NoArgs EXCEPT !.server = srv, !.auth = FullAuth, !.id1 = id] :
        srv \in Servers, id \in IdStrings}

Args_list_pages_by_space ==
    {[NoArgs EXCEPT !.server = srv, !.auth = FullAuth, !.id1 = "DOCS", !.id2 = "25"] :
        srv \in Servers}

Args_upload_attachment ==
    {[NoArgs EXCEPT !.server = srv, !.auth = FullAuth, !.id1 = "1", !.path = path] :
        srv \in Servers, path \in Paths}

Args_download_attachment ==
    {[NoArgs EXCEPT !.server = srv, !.auth = FullAuth, !.id1 = "1", !.path = path] :
        srv \in Servers, path \in Paths}

Args_github_update_issue ==
    {[NoArgs EXCEPT !.token = tok, !.id1 = "octo", !.id2 = "repo", !.id3 = "5",
                    !.text = NoneArg, !.state = NoneArg, !.labels = NoneArg,
                    !.assignees = NoneArg, !.title = title, !.milestone = milestone] :
        tok \in Tokens, title \in {NoneArg, "New title"}, milestone \in {NoneArg, "3"}}

Args_gitlab_create_issue ==
    {[NoArgs EXCEPT !.token = tok, !.server = srv, !.title = "Bug",
                    !.description = "It breaks", !.id1 = id] :
        tok \in Tokens, srv \in Servers, id \in IdStrings}

Args_ban_user ==
    {[NoArgs EXCEPT !.token = tok, !.id2 = "77", !.id3 = "0", !.text = "None", !.id1 = id] :
        tok \in Tokens, id \in IdStrings}

Args_create_page ==
    {[NoArgs EXCEPT !.server = srv, !.auth = FullAuth, !.id1 = "DOCS", !.title = "Home",
                    !.text = "<p>hi</p>"] :
        srv \in Servers}

Args_create_system_hook ==
    {[NoArgs EXCEPT !.token = tok, !.server = srv, !.url = "https://listener/hook",
                    !.text = "True", !.private = "False"] :
        tok \in Tokens, srv \in Servers}

Args_update_system_hook ==
    {[NoArgs EXCEPT !.token = tok, !.server = srv, !.url = "https://listener/hook",
                    !.text = "True", !.private = "False", !.id1 = id] :
        tok \in Tokens, srv \in Servers, id \in IdStrings}

Args_jira_create_webhook ==
    {[NoArgs EXCEPT !.server = srv, !.auth = FullAuth, !.name = "hook",
                    !.url = "https://listener/hook", !.labels = "[jira:issue_created]"] :
        srv \in Servers}

Args_jira_update_webhook ==
    {[NoArgs EXCEPT !.server = srv, !.auth = FullAuth, !.name = "hook", !.id1 = "1",
                    !.url = "https://listener/hook", !.labels = "[jira:issue_created]"] :
        srv \in Servers}

Args_manage_workflow ==
    {[NoArgs EXCEPT !.token = tok, !.id1 = "octo", !.id2 = "repo", !.id3 = "11",
                    !.state = state] :
        tok \in Tokens, state \in {"active", "disabled"}}

Args_update_pull_request ==
    {[NoArgs EXCEPT !.token = tok, !.id1 = "octo", !.id2 = "repo", !.id3 = "8",
                    !.text = NoneArg, !.state = NoneArg, !.name = NoneArg, !.title = title] :
        tok \in Tokens, title \in {NoneArg, "New title"}}

Args_remove_milestone ==
    {[NoArgs EXCEPT !.token = tok, !.id1 = "octo", !.id2 = "repo", !.id3 = "5"] :
        tok \in Tokens}

Args_update_user_profile ==
    {[NoArgs EXCEPT !.token = tok, !.name = NoneArg, !.id1 = NoneArg, !.id2 = NoneArg,
                    !.private = NoneArg, !.text = bio] :
        tok \in Tokens, bio \in {NoneArg, "hacker"}}

Args_manage_merge_request_notes ==
    {[NoArgs EXCEPT !.token = tok, !.server = srv, !.id1 = "1", !.id2 = "4",
                    !.id3 = "9", !.text = "note", !.action = action] :
        tok \in Tokens, srv \in Servers, action \in {"add", "update", "delete", "remove"}}

Args_manage_user_projects ==
    {[NoArgs EXCEPT !.token = tok, !.server = srv, !.id1 = "7", !.id2 = "1",
                    !.action = action] :
        tok \in Tokens, srv \in Servers, action \in {"add", "remove", "update"}}

Args_manage_user_ssh_keys ==
    {[NoArgs EXCEPT !.token = tok, !.server = srv, !.id1 = "7", !.id2 = "12",
                    !.action = action] :
        tok \in Tokens, srv \in Servers, action \in {"add", "remove", "delete"}}

Args_manage_user_emails ==
    {[NoArgs EXCEPT !.token = tok, !.server = srv, !.id1 = "7", !.id2 = "2",
                    !.action = action] :
        tok \in Tokens, srv \in Servers, action \in {"add", "remove", ""}}

Args_manage_pipeline_jobs ==
    {[NoArgs EXCEPT !.token = tok, !.server = srv, !.id1 = "1", !.id2 = "33",
                    !.action = action] :
        tok \in Tokens, srv \in Servers, action \in {"cancel", "retry"}}

Args_discord_delete_message ==
    {[NoArgs EXCEPT !.token = tok, !.id1 = "555", !.id2 = "901"] :
        tok \in Tokens}

Args_list_users ==
    {[NoArgs EXCEPT !.token = tok] :
        tok \in Tokens}

Args_jira_create_project ==
    {[NoArgs EXCEPT !.server = srv, !.auth = FullAuth, !.name = "Apollo",
                    !.text = "software", !.description = ""] :
        srv \in Servers}

Call_create_repository == \E a \in Args_create_repository : Start("create_repository", a)

Call_delete_repository == \E a \in Args_delete_repository : Start("delete_repository", a)

Call_update_repository == \E a \in Args_update_repository : Start("update_repository", a)

Call_star_repository == \E a \in Args_star_repository : Start("star_repository", a)

Call_get_repository_topics == \E a \in Args_get_repository_topics : Start("get_repository_topics", a)

Call_update_message == \E a \in Args_update_message : Start("update_message", a)

Call_react_to_message == \E a \in Args_react_to_message : Start("react_to_message", a)

Call_list_channels == \E a \in Args_list_channels : Start("list_channels", a)

Call_list_conversations == \E a \in Args_list_conversations : Start("list_conversations", a)

Call_upload_file == \E a \in Args_upload_file : Start("upload_file", a)

Call_manage_group_members == \E a \in Args_manage_group_members : Start("manage_group_members", a)

Call_manage_group_projects == \E a \in Args_manage_group_projects : Start("manage_group_projects", a)

Call_manage_issue_notes == \E a \in Args_manage_issue_notes : Start("manage_issue_notes", a)

Call_manage_repository_files == \E a \in Args_manage_repository_files : Start("manage_repository_files", a)

Call_update_board == \E a \in Args_update_board : Start("update_board", a)

Call_update_group == \E a \in Args_update_group : Start("update_group", a)

Call_list_all_boards == \E a \in Args_list_all_boards : Start("list_all_boards", a)

Call_list_projects == \E a \in Args_list_projects : Start("list_projects", a)

Call_create_worklog == \E a \in Args_create_worklog : Start("create_worklog", a)

Call_delete_worklog == \E a \in Args_delete_worklog : Start("delete_worklog", a)

Call_read_issue == \E a \in Args_read_issue : Start("read_issue", a)

Call_unban_user == \E a \in Args_unban_user : Start("unban_user", a)

Call_delete_page == \E a \in Args_delete_page : Start("delete_page", a)

Call_list_pages_by_space == \E a \in Args_list_pages_by_space : Start("list_pages_by_space", a)

Call_upload_attachment == \E a \in Args_upload_attachment : Start("upload_attachment", a)

Call_download_attachment == \E a \in Args_download_attachment : Start("download_attachment", a)

Call_github_update_issue == \E a \in Args_github_update_issue : Start("github_update_issue", a)

Call_gitlab_create_issue == \E a \in Args_gitlab_create_issue : Start("gitlab_create_issue", a)

Call_ban_user == \E a \in Args_ban_user : Start("ban_user", a)

Call_create_page == \E a \in Args_create_page : Start("create_page", a)

Call_create_system_hook == \E a \in Args_create_system_hook : Start("create_system_hook", a)

Call_update_system_hook == \E a \in Args_update_system_hook : Start("update_system_hook", a)

Call_jira_create_webhook == \E a \in Args_jira_create_webhook : Start("jira_create_webhook", a)

Call_jira_update_webhook == \E a \in Args_jira_update_webhook : Start("jira_update_webhook", a)

Call_manage_workflow == \E a \in Args_manage_workflow : Start("manage_workflow", a)

Call_update_pull_request == \E a \in Args_update_pull_request : Start("update_pull_request", a)

Call_remove_milestone == \E a \in Args_remove_milestone : Start("remove_milestone", a)

Call_update_user_profile == \E a \in Args_update_user_profile : Start("update_user_profile", a)

Call_manage_merge_request_notes == \E a \in Args_manage_merge_request_notes : Start("manage_merge_request_notes", a)

Call_manage_user_projects == \E a \in Args_manage_user_projects : Start("manage_user_projects", a)

Call_manage_user_ssh_keys == \E a \in Args_manage_user_ssh_keys : Start("manage_user_ssh_keys", a)

Call_manage_user_emails == \E a \in Args_manage_user_emails : Start("manage_user_emails", a)

Call_manage_pipeline_jobs == \E a \in Args_manage_pipeline_jobs : Start("manage_pipeline_jobs", a)

Call_discord_delete_message == \E a \in Args_discord_delete_message : Start("discord_delete_message", a)

Call_list_users == \E a \in Args_list_users : Start("list_users", a)


\* the caller has the outcome of the invocation and goes on
Resume ==
    /\ pc = "done"
    /\ pc' = "idle"
    /\ last' = NoCall
    /\ sent' = <<>>
    /\ result' = Return(PyNone)
    /\ UNCHANGED <<build, fs, memo, threads>>

Call_jira_create_project == \E a \in Args_jira_create_project : Start("jira_create_project", a)

ServerResponds == \E reply \in OkReplies \cup StatusErrorReplies : Finish(reply)

TransportFails == \E reply \in TransportErrorReplies : Finish(reply)

Next ==
    \/ Call_create_repository
    \/ Call_delete_repository
    \/ Call_update_repository
    \/ Call_star_repository
    \/ Call_get_repository_topics
    \/ Call_update_message
    \/ Call_react_to_message
    \/ Call_list_channels
    \/ Call_list_conversations
    \/ Call_upload_file
    \/ Call_manage_group_members
    \/ Call_manage_group_projects
    \/ Call_manage_issue_notes
    \/ Call_manage_repository_files
    \/ Call_update_board
    \/ Call_update_group
    \/ Call_list_all_boards
    \/ Call_list_projects
    \/ Call_create_worklog
    \/ Call_delete_worklog
    \/ Call_read_issue
    \/ Call_unban_user
    \/ Call_delete_page
    \/ Call_list_pages_by_space
    \/ Call_upload_attachment
    \/ Call_download_attachment
    \/ Call_github_update_issue
    \/ Call_gitlab_create_issue
    \/ Call_ban_user
    \/ Call_create_page
    \/ Call_create_system_hook
    \/ Call_update_system_hook
    \/ Call_jira_create_webhook
    \/ Call_jira_update_webhook
    \/ Call_manage_workflow
    \/ Call_update_pull_request
    \/ Call_remove_milestone
    \/ Call_update_user_profile
    \/ Call_manage_merge_request_notes
    \/ Call_manage_user_projects
    \/ Call_manage_user_ssh_keys
    \/ Call_manage_user_emails
    \/ Call_manage_pipeline_jobs
    \/ Call_discord_delete_message
    \/ Call_list_users
    \/ Call_jira_create_project
    \/ ServerResponds
    \/ TransportFails
    \/ Resume

Spec == Init /\ [][Next]_vars

(***************************************************************************)
(* The same machine with one call watched: the first invocation of the     *)
(* watched call is kept in memo, so that a repetition of it after other    *)
(* invocations can be compared with it.                                    *)
(***************************************************************************)
WatchedReplies == {Response(200, TRUE, JObjId, "{id}")}

Watched ==
    {[NoMemo EXCEPT !.state = "waiting", !.fn = c[1], !.args = c[2], !.reply = c[3]] :
        c \in ({"upload_attachment"} \X Args_upload_attachment \X WatchedReplies)
              \cup ({"download_attachment"} \X Args_download_attachment \X WatchedReplies)
              \cup ({"list_pages_by_space"} \X Args_list_pages_by_space \X WatchedReplies)}

InitWatched ==
    /\ build \in Builds
    /\ fs \in InitFiles
    /\ last = NoCall
    /\ sent = <<>>
    /\ result = Return(PyNone)
    /\ pc = "idle"
    /\ memo \in Watched
    /\ threads = NoThreads

SpecWatched == InitWatched /\ [][Next]_vars


(***************************************************************************)
(* The wrappers called from several threads at once.  The threads start    *)
(* one invocation each; the statements of different invocations            *)
(* interleave.  An invocation that touches no local file is one step from  *)
(* call to return; upload_attachment and upload_file open their file and   *)
(* then send it; download_attachment gets the answer, opens its file for   *)
(* writing, which empties it, and then writes the content.                 *)
(***************************************************************************)
ThreadReplies ==
    {Response(200, TRUE, JObjId, "{id}"), Response(404, FALSE, PyNone, ""),
     TransportError("ConnectionError", "Connection refused")}

\* the wrappers that open a local file for reading
FileReaders == {"upload_attachment", "upload_file"}

\* the wrappers that open a local file for writing
FileWriters == {"download_attachment"}

ThreadCalls ==
    ({"list_users"} \X Args_list_users)
        \cup ({"upload_attachment"} \X Args_upload_attachment)
        \cup ({"upload_file"} \X Args_upload_file)
        \cup ({"download_attachment"} \X Args_download_attachment)

\* thread t ends its invocation the way the wrapper's code ends in the files as they
\* are now
Ends(t) ==
    LET r == Run(threads[t].fn, threads[t].args, threads[t].reply)
    IN  /\ threads' = [threads EXCEPT ![t].pc = "done", ![t].outcome = r.outcome]
        /\ fs' = r.fs

\* every thread calls a wrapper; what the call would return if it ran alone, in the
\* files as they are, is kept beside it
Spawn ==
    /\ \A t \in Threads : threads[t].pc = "idle"
    /\ \E calls \in [Threads -> ThreadCalls \X ThreadReplies] :
           threads' =
               [t \in Threads |->
                   [pc |-> "called", fn |-> calls[t][1][1], args |-> calls[t][1][2],
                    reply |-> calls[t][2], outcome |-> Return(PyNone),
                    alone |-> Run(calls[t][1][1], calls[t][1][2], calls[t][2]).outcome]]
    /\ UNCHANGED <<build, fs, last, sent, result, pc, memo>>

\* a wrapper that touches no local file runs from its call to its return
ThreadRuns(t) ==
    /\ threads[t].pc = "called"
    /\ threads[t].fn \notin FileReaders \cup FileWriters
    /\ Ends(t)
    /\ UNCHANGED <<build, last, sent, result, pc, memo>>

\* open(file_path, "rb"): the invocation ends here when there is no such file
ThreadOpens(t) ==
    /\ threads[t].pc = "called"
    /\ threads[t].fn \in FileReaders
    /\ IF OpenRead(fs, threads[t].args.path).kind = "raise"
       THEN Ends(t)
       ELSE threads' = [threads EXCEPT ![t].pc = "opened"] /\ UNCHANGED fs
    /\ UNCHANGED <<build, last, sent, result, pc, memo>>

\* requests.post(..., files=...): the file is read and sent, the answer handled
ThreadSends(t) ==
    /\ threads[t].pc = "opened"
    /\ threads[t].fn \in FileReaders
    /\ Ends(t)
    /\ UNCHANGED <<build, last, sent, result, pc, memo>>

\* requests.get(...) and raise_for_status(): the invocation ends here when the
\* request failed
ThreadGets(t) ==
    /\ threads[t].pc = "called"
    /\ threads[t].fn \in FileWriters
    /\ IF Failed(threads[t].reply)
       THEN Ends(t)
       ELSE threads' = [threads EXCEPT ![t].pc = "answered"] /\ UNCHANGED fs
    /\ UNCHANGED <<build, last, sent, result, pc, memo>>

\* open(save_path, "wb"): the file is created or emptied; the invocation ends here
\* when the file cannot be created
ThreadTruncates(t) ==
    /\ threads[t].pc = "answered"
    /\ IF OpenWrite(threads[t].args.path).kind = "raise"
       THEN Ends(t)
       ELSE /\ threads' = [threads EXCEPT ![t].pc = "opened"]
            /\ fs' = [fs EXCEPT ![threads[t].args.path] = ""]
    /\ UNCHANGED <<build, last, sent, result, pc, memo>>

\* f.write(response.content), the file is closed, return None
ThreadWrites(t) ==
    /\ threads[t].pc = "opened"
    /\ threads[t].fn \in FileWriters
    /\ Ends(t)
    /\ UNCHANGED <<build, last, sent, result, pc, memo>>

\* every thread has its outcome; the caller goes on
Join ==
    /\ \A t \in Threads : threads[t].pc = "done"
    /\ threads' = NoThreads
    /\ UNCHANGED <<build, fs, last, sent, result, pc, memo>>

NextThreads ==
    \/ Spawn
    \/ \E t \in Threads : ThreadRuns(t)
    \/ \E t \in Threads : ThreadOpens(t)
    \/ \E t \in Threads : ThreadSends(t)
    \/ \E t \in Threads : ThreadGets(t)
    \/ \E t \in Threads : ThreadTruncates(t)
    \/ \E t \in Threads : ThreadWrites(t)
    \/ Join

SpecThreads == Init /\ [][NextThreads]_vars

(***************************************************************************)
(* Properties.                                                             *)
(***************************************************************************)
Done == pc = "done"

Returned == Done /\ result.kind = "return"

Raised == Done /\ result.kind = "raise"

\* the invocation made a request and the request failed
RequestFailed == Done /\ Len(sent) >= 1 /\ Failed(last.reply)

\* the invocation made a request and the request did not fail
RequestAnswered == Done /\ Len(sent) >= 1 /\ ~Failed(last.reply)

\* the wrappers without try/except and without raise_for_status()
Unguarded == {"create_repository", "delete_repository", "update_repository"}

\* the wrappers that only return a notice
Placeholders == {"update_board", "update_group"}

\* the wrappers whose success value is `response.json()`
WholeBody ==
    {"create_repository", "delete_repository", "update_repository", "update_message",
     "react_to_message", "list_conversations", "upload_file", "manage_repository_files",
     "create_worklog", "read_issue", "unban_user", "list_pages_by_space",
     "upload_attachment", "github_update_issue", "gitlab_create_issue", "ban_user",
     "create_page", "create_system_hook", "update_system_hook", "jira_create_webhook",
     "jira_update_webhook", "manage_workflow", "update_pull_request",
     "update_user_profile", "manage_user_projects", "list_users",
     "jira_create_project"}

\* the wrappers whose success value is `response.json().get(key, [])`
Keyed == {"list_all_boards", "get_repository_topics", "list_channels"}

KeyOf(fn) ==
    CASE fn = "list_all_boards" -> "values"
      [] fn = "get_repository_topics" -> "names"
      [] fn = "list_channels" -> "channels"

\* C1: a request that ends in a 4xx/5xx response or in a transport exception makes
\* the wrapper return a string; nothing is raised to the caller.
C1_FailureReturnsString == RequestFailed => Returned /\ IsStr(result.value)

\* C2 as stated, in the direction a caller relies on: a returned string means that
\* the call failed.
C2_StringMeansFailed == Returned /\ IsStr(result.value) => RequestFailed

\* C2, amended: a returned value that is not a string means the request was sent and
\* the server answered it - with a 2xx status in every wrapper that checks the status.
\* A returned string means nothing by itself: success messages are strings too.
C2_NonStringMeansAnswered ==
    Returned /\ ~IsStr(result.value) =>
        /\ Len(sent) = 1
        /\ last.reply.kind = "response"
        /\ last.fn \notin Unguarded => Is2xx(last.reply)

C2_Witness ==
    /\ Returned /\ ~IsStr(result.value) /\ last.fn = "update_message"
    /\ Is2xx(last.reply)

C4_AnsweredNeverAnError ==
    RequestAnswered =>
        /\ Returned
        /\ ~(IsStr(result.value) /\ result.value.text = Json(NoReply).exc.msg)

\* C5: no invocation ends by propagating an exception.
C5_NothingPropagates == Done => result.kind = "return"

\* C6 as stated: no wrapper returns a value without having sent a request.
C6_RequestBeforeReturn == Returned => Len(sent) >= 1

\* C6, amended: apart from the two Jira placeholders update_board and update_group,
\* which send nothing and return a notice, no wrapper returns a value without having
\* sent a request.
C6_RequestBeforeReturnButPlaceholders ==
    Returned /\ last.fn \notin Placeholders => Len(sent) >= 1

C6_Witness ==
    /\ Returned /\ last.fn = "manage_issue_notes" /\ last.args.action = "update"
    /\ Len(sent) = 1 /\ sent[1].method = "PUT"

\* the request carries the credential the caller passed
Carries(req, a) ==
    /\ a.token # "" =>
           req.authorization \in
               {TokenHeader(scheme, a.token) : scheme \in {"token", "Bearer", "Bot"}}
    /\ a.auth # {} =>
           /\ AuthHas(a.auth, "username") /\ AuthHas(a.auth, "password")
           /\ req.basic = BasicOf(a.auth)

\* C7: every request a wrapper sends carries the credential the caller passed in.
C7_RequestsCarryCredential ==
    Done => \A i \in 1..Len(sent) : Carries(sent[i], last.args)

Repeats ==
    /\ Done /\ memo.state = "again"
    /\ last.fn = memo.fn /\ last.args = memo.args /\ last.reply = memo.reply

\* C9 as stated: whatever was called before, the request a wrapper sends and the
\* value it returns depend only on its arguments and on the server's response.
C9_SameCallSameOutcome == Repeats => sent = memo.sent /\ result = memo.outcome

\* C9, amended: wrapper calls share no state in memory, but they share the local
\* files: download_attachment writes the file at save_path, upload_attachment and
\* upload_file read the file at file_path.  The request a wrapper sends and the value
\* it returns depend only on its arguments, on the server's response and on the
\* content of the local file its path argument names.
C9_SameCallSameFileSameOutcome ==
    Repeats /\ last.view = memo.view => sent = memo.sent /\ result = memo.outcome

C9_Witness ==
    /\ Repeats /\ last.view = memo.view /\ last.fn = "upload_attachment"
    /\ last.view = "[p1,p2]" /\ Len(sent) = 1 /\ sent[1].files = "[p1,p2]"

\* the pairs of Slack wrappers that send the same method to the same URL
SlackShared ==
    {{"list_channels", "list_conversations"}, {"add_reaction", "react_to_message"},
     {"remove_reaction", "unreact_to_message"}}

SameEndpoint(e, f) == e.method = f.method /\ e.url = f.url

\* the Slack wrappers among the invocations
SlackCalled ==
    {"update_message", "react_to_message", "list_channels", "list_conversations",
     "upload_file", "list_users"}

EndpointExample(fn, a) ==
    CASE fn = "create_page" -> Endpoint(fn, "POST", a.server \o "/rest/api/content")
      [] fn = "ban_user" ->
             Endpoint(fn, "PUT",
                      "https://discord.com/api/v9" \o "/guilds/" \o a.id1 \o "/bans/" \o a.id2)
      [] fn = "github_update_issue" ->
             Endpoint(fn, "PATCH",
                      "https://api.github.com" \o "/repos/" \o a.id1 \o "/" \o a.id2
                          \o "/issues/" \o a.id3)
      [] fn = "gitlab_create_issue" ->
             Endpoint(fn, "POST", a.server \o "/api/v4/projects/" \o a.id1 \o "/issues")
      [] fn = "read_issue" -> Endpoint(fn, "GET", a.server \o "/rest/api/2/issue/" \o a.id1)
      [] fn = "update_message" -> Endpoint(fn, "POST", "https://slack.com" \o "/api/chat.update")

EndpointExamples ==
    {"create_page", "ban_user", "github_update_issue", "gitlab_create_issue", "read_issue",
     "update_message"}

\* C11: each of the six wrappers named as examples sends the named HTTP method to
\* the named path appended to the provider's base address, and sends it once
\* whenever it returns.
C11_EndpointExamples ==
    Done /\ last.fn \in EndpointExamples =>
        /\ \A i \in 1..Len(sent) :
               /\ sent[i].method = EndpointExample(last.fn, last.args).method
               /\ sent[i].url = EndpointExample(last.fn, last.args).url
        /\ Returned => Len(sent) = 1

C11_Witness ==
    /\ Returned /\ last.fn = "github_update_issue" /\ Len(sent) = 1
    /\ sent[1].method = "PATCH"
    /\ sent[1].url = "https://api.github.com/repos/octo/repo/issues/5"


\* the wrappers that create or update a hook and take the hook's target URL
HookWrappers ==
    {"create_system_hook", "update_system_hook", "jira_create_webhook",
     "jira_update_webhook"}

\* the address of the provider's hook API the request goes to
HookApi(fn, a) ==
    CASE fn = "create_system_hook" -> a.server \o "/api/v4/hooks"
      [] fn = "update_system_hook" -> a.server \o "/api/v4/hooks/" \o a.id1
      [] fn = "jira_create_webhook" -> a.server \o "/rest/webhooks/1.0/webhook"
      [] fn = "jira_update_webhook" -> a.server \o "/rest/webhooks/1.0/webhook/" \o a.id1

\* C12: a hook create/update wrapper sends its request to the provider's hook API,
\* and the "url" field of the request body is the target URL the caller supplied.
C12_HookUrlIsCallersUrl ==
    Done /\ last.fn \in HookWrappers =>
        \A i \in 1..Len(sent) :
            /\ sent[i].url = HookApi(last.fn, last.args)
            /\ {p[2] : p \in {q \in sent[i].body : q[1] = "url"}} = {last.args.url}


\* C13: list_projects sends a GET request to the caller's server_url followed by
\* /rest/api/2/project and, when the server answers 2xx with the list of projects,
\* returns that list.
C13_ListProjectsUrlAndList ==
    Done /\ last.fn = "list_projects" /\ Len(sent) >= 1 =>
        /\ sent[1].method = "GET"
        /\ sent[1].url = last.args.server \o "/rest/api/2/project"
        /\ Is2xx(last.reply) /\ last.reply.json = JList => result = Return(JList)


\* the GitHub operation that puts a workflow into a state
WorkflowOperation(a) ==
    "https://api.github.com/repos/" \o a.id1 \o "/" \o a.id2 \o "/actions/workflows/"
        \o a.id3 \o (IF a.state = "active" THEN "/enable" ELSE "/disable")

\* C14: manage_workflow requests the operation its state argument names: enabling the
\* workflow for "active", disabling it for "disabled".
C14_WorkflowStateSelectsOperation ==
    Done /\ last.fn = "manage_workflow" =>
        \A i \in 1..Len(sent) :
            sent[i].method = "PUT" /\ sent[i].url = WorkflowOperation(last.args)


\* the GitHub wrappers whose optional arguments default to None
PartialUpdates == {"github_update_issue", "update_pull_request", "update_user_profile"}

\* C15: a partial update leaves an argument that is None out of the request body: no
\* field of the body is null.
C15_NoneIsLeftOut ==
    Done /\ last.fn \in PartialUpdates =>
        \A i \in 1..Len(sent) : \A p \in sent[i].body : p[2] # NoneArg


\* the value the request body holds under key k; NoneArg when the key is absent
BodyField(body, k) ==
    IF \E p \in body : p[1] = k THEN (CHOOSE p \in body : p[1] = k)[2] ELSE NoneArg

BodyKeys(body) == {p[1] : p \in body}

\* C16: the PATCH body of update_repository holds exactly those of name, description
\* and private whose argument is not None, each with the caller's value; False and
\* the empty string are sent.
C16_OnlyNoneIsFiltered ==
    Done /\ last.fn = "update_repository" =>
        /\ Len(sent) = 1
        /\ sent[1].method = "PATCH"
        /\ BodyKeys(sent[1].body) \subseteq {"name", "description", "private"}
        /\ ("name" \in BodyKeys(sent[1].body)) = (last.args.name # NoneArg)
        /\ ("description" \in BodyKeys(sent[1].body)) = (last.args.description # NoneArg)
        /\ ("private" \in BodyKeys(sent[1].body)) = (last.args.private # NoneArg)
        /\ BodyField(sent[1].body, "name") = last.args.name
        /\ BodyField(sent[1].body, "description") = last.args.description
        /\ BodyField(sent[1].body, "private") = last.args.private

C16_Witness ==
    /\ Done /\ last.fn = "update_repository" /\ last.args.name = NoneArg
    /\ last.args.description = "" /\ last.args.private = "False"
    /\ sent[1].body = {<<"description", "">>, <<"private", "False">>}


\* the GitLab manage_* wrappers that choose their request by the action argument
Dispatchers ==
    {"manage_group_members", "manage_group_projects", "manage_issue_notes",
     "manage_merge_request_notes", "manage_repository_files", "manage_user_projects",
     "manage_user_ssh_keys", "manage_user_emails"}

\* the HTTP method an action stands for; "" for a value that names no action
\* ("create" is what manage_repository_files calls adding)
MethodOf(action) ==
    CASE action \in {"add", "create"} -> "POST"
      [] action = "update" -> "PUT"
      [] action \in {"remove", "delete"} -> "DELETE"
      [] OTHER -> ""

\* C17: a GitLab manage_* wrapper sends at most one request, the method of a request
\* it sends is the one its action stands for (POST to add, PUT to update, DELETE to
\* remove or delete), and it does not return without having sent one.
C17_ActionSelectsMethod ==
    Done /\ last.fn \in Dispatchers =>
        /\ Len(sent) <= 1
        /\ \A i \in 1..Len(sent) : sent[i].method = MethodOf(last.args.action)
        /\ Returned => Len(sent) = 1


\* the HTTP method of each documented action of manage_repository_files
FileActionMethod(action) ==
    CASE action = "create" -> "POST"
      [] action = "update" -> "PUT"
      [] action = "delete" -> "DELETE"

\* C18: manage_repository_files sends "create" as POST, "update" as PUT and "delete"
\* as DELETE; an update is never sent as a creation.
C18_FileActionsAreDistinct ==
    Done /\ last.fn = "manage_repository_files"
         /\ last.args.action \in {"create", "update", "delete"} =>
        /\ Len(sent) = 1
        /\ sent[1].method = FileActionMethod(last.args.action)


\* the fixed values by which the wrappers report success
SuccessReports ==
    {PyStr("Successfully starred the repository."),
     PyStr("Milestone removed successfully."),
     PyStr("Group member managed successfully."),
     PyStr("Group project managed successfully."),
     PyStr("Issue note managed successfully."),
     PyStr("Merge request note managed successfully."),
     PyStr("SSH key managed successfully."),
     PyStr("Email address managed successfully."),
     PyStr("Worklog deleted successfully."),
     PyDict({<<"status", Flat("str", "Page deleted successfully")>>}),
     PyDict({<<"status", Flat("str", "Message deleted successfully")>>})}
        \cup {PyStr("Job " \o action \o "ed successfully.") : action \in {"cancel", "retry"}}

\* C19: a wrapper reports success by its fixed message or status object only after
\* it has sent its request and the response had a 2xx status.
C19_SuccessOnlyAfter2xx ==
    Returned /\ result.value \in SuccessReports =>
        /\ Len(sent) = 1
        /\ Is2xx(last.reply)

C19_Witness ==
    /\ Returned /\ last.fn = "discord_delete_message"
    /\ result.value = PyDict({<<"status", Flat("str", "Message deleted successfully")>>})
    /\ Len(sent) = 1 /\ sent[1].method = "DELETE" /\ last.reply.status = 204


\* the Slack API rejected the call: HTTP 200, "ok": false in the body
SlackRejected ==
    /\ Done /\ last.fn \in SlackCalled /\ Len(sent) = 1
    /\ last.reply.kind = "response" /\ last.reply.status = 200
    /\ last.reply.json = JObjRejected

\* C20: a call Slack rejects with HTTP 200 and "ok": false is reported to the caller
\* as a failure, by an error string.
C20_RejectionIsAFailure == SlackRejected => Returned /\ IsStr(result.value)


\* a concurrent invocation writes the local file that the invocation of t reads
WritesFileOf(t) ==
    /\ threads[t].fn \in FileReaders
    /\ \E u \in Threads \ {t} :
           /\ threads[u].fn \in FileWriters
           /\ threads[u].args.path = threads[t].args.path

\* C21 as stated: in every interleaving each invocation ends the way it would end if
\* it ran alone against the same server response.
C21_ThreadsDoNotInterfere ==
    \A t \in Threads : threads[t].pc = "done" => threads[t].outcome = threads[t].alone

\* C21, amended: concurrent invocations share no state in memory, but they share the
\* local files.  In every interleaving an invocation ends the way it would end if it
\* ran alone, unless it reads (upload_attachment, upload_file) the local file that a
\* concurrent download_attachment writes.
C21_ThreadsInterfereOnlyByFiles ==
    \A t \in Threads :
        threads[t].pc = "done" =>
            threads[t].outcome = threads[t].alone \/ WritesFileOf(t)

C21_Witness ==
    /\ threads["A"].pc = "done" /\ threads["A"].fn = "list_users"
    /\ threads["A"].outcome = Return(JObjId) /\ threads["A"].outcome = threads["A"].alone
    /\ threads["B"].fn = "download_attachment" /\ threads["B"].pc = "opened"
    /\ fs[threads["B"].args.path] = ""


\* str(e)
Str(e) == e.msg

\* the exception the try block raises on a reply: that of the HTTP library, that of
\* raise_for_status(), or that of response.json()
Thrown(reply, url) ==
    IF reply.kind = "exc" THEN reply.exc
    ELSE IF reply.status >= 400 THEN RaiseForStatus(reply, url).exc
    ELSE Json(reply).exc

\* the invocation returned a string that is neither a success report nor the notice
\* of a placeholder
ErrorString ==
    /\ Returned /\ IsStr(result.value)
    /\ result.value \notin SuccessReports
    /\ last.fn \notin Placeholders

\* C22: an error string a wrapper returns is exactly the string form of the
\* exception it caught: nothing is put before it, around it, or cut off.
C22_ErrorStringIsStrOfException ==
    ErrorString =>
        /\ Len(sent) = 1
        /\ result.value.text = Str(Thrown(last.reply, sent[1].url))

C22_Witness ==
    /\ ErrorString /\ last.fn = "jira_create_project" /\ last.reply.status = 404
    /\ result.value.text = "404 Client Error for url: https://host/rest/api/2/project"

====
